---- MODULE Spec2Model ----
(***************************************************************************)
(* Huffman coding visualizer: the construction and step engine of          *)
(* src/huffman.js (classes HuffmanNode and HuffmanCoding) and the build    *)
(* request, stepping and codes table of HuffmanVisualizer (src/README.md). *)
(*                                                                         *)
(* Objects live in a heap (a sequence of node records, a reference is an   *)
(* index, NULL is 0), so that sharing between the working array of         *)
(* buildTree and the recorded steps is visible.  A bit string is the       *)
(* sequence of its characters "0" and "1".  Math.random ids are fresh      *)
(* values drawn from a counter.  buildTree runs to completion without      *)
(* interleaving: its loop iterations are the only enabled actions while    *)
(* pc # "idle".                                                            *)
(***************************************************************************)
EXTENDS Integers, Sequences, FiniteSets, TLC

VARIABLES heap, nextId, nodes, root, freqMap, pc,
          steps, currentStep, codes, isPlaying, animationTimeout, playTimer, timers,
          ret, nextCalls,
          visPc, request, currentFreqMap, currentTree, showFixedLength, table, alert,
          lastCall

(* The fields of HuffmanCoding and the run of its buildTree.               *)
engineVars == <<heap, nextId, nodes, root, freqMap, pc,
                steps, currentStep, codes, isPlaying, animationTimeout, timers,
                ret, nextCalls>>

(* The fields of HuffmanVisualizer (src/README.md), the build request it   *)
(* is handling and what it shows; lastCall names the control handler the   *)
(* user invoked last (step, stepBack, play, pause or reset).               *)
visShown == <<visPc, request, currentFreqMap, currentTree, showFixedLength, table, alert>>
visVars == <<visPc, request, currentFreqMap, currentTree, showFixedLength, table, alert,
             lastCall>>

vars == <<heap, nextId, nodes, root, freqMap, pc,
          steps, currentStep, codes, isPlaying, animationTimeout, playTimer, timers,
          ret, nextCalls, visVars>>

(* ------------------------------ bounds --------------------------------- *)
MaxSyms == 2        \* largest frequency table of the engine specification
MaxFreq == 2        \* largest frequency of the engine specification
BuildSyms == 4      \* largest frequency table of the construction specification
BuildFreq == 2      \* largest frequency of the construction specification
MaxExtra == 2       \* nextStep calls counted past the end of the log
MaxRows == 2        \* most input rows of a build request of the manual tab
MaxText == 3        \* longest text of a build request of the text tab
MaxPending == 2     \* most timers of the visualizer pending at once

Chars == {"A", "B"}
BuildChars == {"A", "B", "C", "D"}

NULL == 0           \* null reference / cleared timeout handle
NoChar == "null"    \* char of an internal node (JS null)
NoNodes == <<>>     \* nodes: null of a step; a recorded forest f is <<f>>

Range(s) == {s[i] : i \in 1..Len(s)}

RECURSIVE SeqSum(_)
SeqSum(s) == IF s = <<>> THEN 0 ELSE s[1] + SeqSum(Tail(s))

(* Frequency tables: a Map iterates in insertion order, its keys distinct. *)
Tables(chars, maxLen, freqs) ==
    UNION {{fm \in [1..n -> chars \X freqs] :
              \A i, j \in 1..n : i # j => fm[i][1] # fm[j][1]} : n \in 0..maxLen}

FreqTables == Tables(Chars, MaxSyms, 0..MaxFreq)
BuildTables == Tables(BuildChars, BuildSyms, 0..BuildFreq)

(* samples.sample1 of setupSampleData (src/README.md) *)
SampleTable == <<<<"A", 5>>, <<"B", 9>>, <<"C", 12>>, <<"D", 13>>, <<"E", 16>>, <<"F", 45>>>>

(* A valid table: at least one symbol, every frequency a positive integer. *)
IsValid(fm) == Len(fm) >= 1 /\ \A i \in 1..Len(fm) : fm[i][2] >= 1

(* ---------------------------- HuffmanNode ------------------------------ *)
(* Every node gets the same id. *)
NewNodeSameId(st, char, freq, left, right) ==
    [st  |-> [heap   |-> Append(st.heap, [char |-> char, freq |-> freq,
                                           left |-> left, right |-> right,
                                           id |-> 1]),
              nextId |-> st.nextId + 1],
     ref |-> Len(st.heap) + 1]

(* A node that drops its right child. *)
NewNodeNoRight(st, char, freq, left, right) ==
    [st  |-> [heap   |-> Append(st.heap, [char |-> char, freq |-> freq,
                                           left |-> left, right |-> NULL,
                                           id |-> st.nextId]),
              nextId |-> st.nextId + 1],
     ref |-> Len(st.heap) + 1]

(* new HuffmanNode(char, freq, left, right): a fresh object, a fresh id.   *)
NewNode(st, char, freq, left, right) ==
    [st  |-> [heap   |-> Append(st.heap, [char |-> char, freq |-> freq,
                                           left |-> left, right |-> right,
                                           id |-> st.nextId]),
              nextId |-> st.nextId + 1],
     ref |-> Len(st.heap) + 1]

isLeaf(h, n) == h[n].left = NULL /\ h[n].right = NULL

(* ------------------------ HuffmanCoding helpers ------------------------ *)
(* A clone that is the node itself. *)
cloneNodeShallow(st, n) == [st |-> st, ref |-> n]

(* A clone that keeps the id its constructor drew. *)
RECURSIVE cloneNodeFreshId(_, _)
cloneNodeFreshId(st, n) ==
    IF n = NULL THEN [st |-> st, ref |-> NULL]
    ELSE LET src == st.heap[n]
             c   == NewNode(st, src.char, src.freq, NULL, NULL)
             l   == cloneNodeFreshId(c.st, src.left)
             s2  == [l.st EXCEPT !.heap[c.ref].left = l.ref]
             r   == cloneNodeFreshId(s2, src.right)
             s3  == [r.st EXCEPT !.heap[c.ref].right = r.ref]
         IN  [st |-> s3, ref |-> c.ref]

(* cloneNode: a new object with the source's char, freq and id, and        *)
(* recursively cloned children.                                            *)
RECURSIVE cloneNode(_, _)
cloneNode(st, n) ==
    IF n = NULL THEN [st |-> st, ref |-> NULL]
    ELSE LET src == st.heap[n]
             c   == NewNode(st, src.char, src.freq, NULL, NULL)
             s1  == [c.st EXCEPT !.heap[c.ref].id = src.id]
             l   == cloneNode(s1, src.left)
             s2  == [l.st EXCEPT !.heap[c.ref].left = l.ref]
             r   == cloneNode(s2, src.right)
             s3  == [r.st EXCEPT !.heap[c.ref].right = r.ref]
         IN  [st |-> s3, ref |-> c.ref]

(* nodes.map(n => this.cloneNode(n)) *)
RECURSIVE CloneAll(_, _)
CloneAll(st, list) ==
    IF list = <<>> THEN [st |-> st, refs |-> <<>>]
    ELSE LET c    == cloneNode(st, Head(list))
             rest == CloneAll(c.st, Tail(list))
         IN  [st |-> rest.st, refs |-> <<c.ref>> \o rest.refs]

(* addStep(description, nodes = null, highlightNodes = []): the step       *)
(* appended and the heap after cloning.  ns is NoNodes or <<list>>.        *)
addStep(st, log, description, ns, highlightNodes) ==
    IF ns = NoNodes
    THEN [st  |-> st,
          log |-> Append(log, [description |-> description, nodes |-> NoNodes,
                               highlightNodes |-> highlightNodes])]
    ELSE LET c == CloneAll(st, ns[1])
         IN  [st  |-> c.st,
              log |-> Append(log, [description |-> description, nodes |-> <<c.refs>>,
                                   highlightNodes |-> highlightNodes])]

(* A sort that leaves the array as it is. *)
SortNodesNone(h, s) == s

(* A stable sort by descending frequency. *)
RECURSIVE SortNodesDescending(_, _)
SortNodesDescending(h, s) ==
    IF s = <<>> THEN <<>>
    ELSE LET p == SortNodesDescending(h, SubSeq(s, 1, Len(s) - 1))
             x == s[Len(s)]
             k == Cardinality({i \in 1..Len(p) : h[p[i]].freq >= h[x].freq})
         IN  SubSeq(p, 1, k) \o <<x>> \o SubSeq(p, k + 1, Len(p))

(* nodes.sort((a, b) => a.freq - b.freq): Array.prototype.sort is stable.  *)
RECURSIVE SortNodes(_, _)
SortNodes(h, s) ==
    IF s = <<>> THEN <<>>
    ELSE LET p == SortNodes(h, SubSeq(s, 1, Len(s) - 1))
             x == s[Len(s)]
             k == Cardinality({i \in 1..Len(p) : h[p[i]].freq <= h[x].freq})
         IN  SubSeq(p, 1, k) \o <<x>> \o SubSeq(p, k + 1, Len(p))

(* The last entry of the table gets no leaf. *)
RECURSIVE MakeLeavesButLast(_, _)
MakeLeavesButLast(st, fm) ==
    IF Len(fm) <= 1 THEN [st |-> st, refs |-> <<>>]
    ELSE LET c    == NewNode(st, fm[1][1], fm[1][2], NULL, NULL)
             rest == MakeLeavesButLast(c.st, Tail(fm))
         IN  [st |-> rest.st, refs |-> <<c.ref>> \o rest.refs]

(* for (const [char, freq] of freqMap.entries()) nodes.push(new HuffmanNode(char, freq)) *)
RECURSIVE MakeLeaves(_, _)
MakeLeaves(st, fm) ==
    IF fm = <<>> THEN [st |-> st, refs |-> <<>>]
    ELSE LET c    == NewNode(st, fm[1][1], fm[1][2], NULL, NULL)
             rest == MakeLeaves(c.st, Tail(fm))
         IN  [st |-> rest.st, refs |-> <<c.ref>> \o rest.refs]

(* left.char || 'internal' *)
CharOrInternal(ch) == IF ch = NoChar THEN "internal" ELSE ch

(* The right edge adds nothing to the path. *)
RightPathSame(path) == path

(* path + '1' *)
RightPath(path) == path \o <<"1">>

(* generateCodes(node, path): the code table after the traversal.          *)

RECURSIVE generateCodes(_, _, _, _)
generateCodes(h, tbl, n, path) ==
    IF isLeaf(h, n)
    THEN [c \in DOMAIN tbl \cup {h[n].char} |->
             IF c = h[n].char THEN path ELSE tbl[c]]
    ELSE generateCodes(h, generateCodes(h, tbl, h[n].left, path \o <<"0">>),
                       h[n].right, RightPath(path))

(* ------------------------------- state --------------------------------- *)
EmptyCodes == [c \in {} |-> <<>>]

NoTable == <<>>     \* the codes table before updateCodesTable has rendered it
NoRequest == <<>>   \* no build request is being handled
NoAlert == "none"   \* no alert(error.message) shown by the last build request
NoCall == "none"    \* no control handler invoked yet

(* constructor() of HuffmanCoding and of HuffmanVisualizer; no buildTree   *)
(* call is in progress and no timer is pending.  timers is the set of      *)
(* pending setTimeout callbacks, each with its handle h and its kind       *)
(* ("playStep" for the timer of play).  ret is the last nextStep or        *)
(* prevStep call and the value it returned, nextCalls the number of        *)
(* nextStep calls of a counted run.                                        *)
Init ==
    /\ heap = <<>>
    /\ nextId = 1
    /\ nodes = <<>>
    /\ root = NULL
    /\ freqMap = <<>>
    /\ pc = "idle"
    /\ steps = <<>>
    /\ currentStep = 0
    /\ codes = EmptyCodes
    /\ isPlaying = FALSE
    /\ animationTimeout = NULL
    /\ playTimer = NULL
    /\ timers = {}
    /\ ret = [op |-> "none", val |-> FALSE]
    /\ nextCalls = 0
    /\ visPc = "idle"
    /\ request = NoRequest
    /\ currentFreqMap = <<>>
    /\ currentTree = NULL
    /\ showFixedLength = FALSE
    /\ table = NoTable
    /\ alert = NoAlert
    /\ lastCall = NoCall

(* ------------------------------ buildTree ------------------------------ *)
(* Lines 35-49: reset the log and the cursor, create and sort the leaves,  *)
(* record the initial step.  The objects of an earlier call are garbage at *)
(* this point (the log is dropped, the caller's root is overwritten), so   *)
(* the heap restarts empty.                                                *)
(* The log of the earlier build is kept. *)
ResetLogKept(log) == log

(* this.steps = [] *)
ResetLog(log) == <<>>

(* The cursor is left where it was. *)
BuildCursorKept(cur) == cur

(* this.currentStep = 0 *)
BuildCursor(cur) == 0

BuildTree(fm) ==
    /\ pc = "idle"
    /\ LET lv     == MakeLeaves([heap |-> <<>>, nextId |-> 1], fm)
           sorted == SortNodes(lv.st.heap, lv.refs)
           a      == addStep(lv.st, ResetLog(steps), <<"Starting with the following nodes:">>,
                             <<sorted>>, <<>>)
       IN  /\ heap' = a.st.heap
           /\ nextId' = a.st.nextId
           /\ nodes' = sorted
           /\ steps' = a.log
    /\ currentStep' = BuildCursor(currentStep)
    /\ freqMap' = fm
    /\ root' = NULL
    /\ pc' = "loop"
    /\ UNCHANGED <<codes, isPlaying, animationTimeout, playTimer, timers, ret, nextCalls>>

(* The loop stops one node early. *)
LoopContinuesAboveTwo(ns) == Len(ns) > 2

(* while (nodes.length > 1) *)
LoopContinues(ns) == Len(ns) > 1

(* Lines 52-68: one iteration of the loop.                                 *)
BuildTreeMerge ==
    /\ pc = "loop"
    /\ LoopContinues(nodes)
    /\ LET sorted == SortNodes(heap, nodes)
           left   == sorted[1]
           right  == sorted[2]
           rest   == SubSeq(sorted, 3, Len(sorted))
           sum    == heap[left].freq + heap[right].freq
           shown  == NewNode([heap |-> heap, nextId |-> nextId], NoChar, sum, left, right)
           a      == addStep(shown.st, steps,
                             <<"Combining nodes", CharOrInternal(heap[left].char), heap[left].freq,
                               CharOrInternal(heap[right].char), heap[right].freq>>,
                             <<(<<shown.ref>> \o rest)>>,
                             <<heap[left].id, heap[right].id>>)
           internalNode == NewNode(a.st, NoChar, sum, left, right)
       IN  /\ heap' = internalNode.st.heap
           /\ nextId' = internalNode.st.nextId
           /\ nodes' = <<internalNode.ref>> \o rest
           /\ steps' = a.log
    /\ UNCHANGED <<root, freqMap, pc, currentStep, codes, isPlaying, animationTimeout, playTimer,
                   timers, ret, nextCalls>>
    /\ UNCHANGED visVars

(* Lines 70-73: the final step and the return of nodes[0].                 *)
BuildTreeEnd ==
    /\ pc = "loop"
    /\ ~LoopContinues(nodes)
    /\ LET a == addStep([heap |-> heap, nextId |-> nextId], steps,
                        <<"Huffman tree construction complete!">>, NoNodes, <<>>)
       IN  /\ heap' = a.st.heap
           /\ nextId' = a.st.nextId
           /\ steps' = a.log
    /\ root' = IF nodes = <<>> THEN NULL ELSE nodes[1]
    /\ nodes' = <<>>
    /\ pc' = "idle"
    /\ UNCHANGED <<freqMap, currentStep, codes, isPlaying, animationTimeout, playTimer, timers,
                   ret, nextCalls>>
    /\ UNCHANGED visVars

(* The caller derives the codes from the root buildTree returned.          *)
GenerateCodes ==
    /\ pc = "idle"
    /\ root # NULL
    /\ codes' = generateCodes(heap, codes, root, <<>>)
    /\ UNCHANGED <<heap, nextId, nodes, root, freqMap, pc, steps, currentStep,
                   isPlaying, animationTimeout, playTimer, timers, ret, nextCalls>>
    /\ UNCHANGED visVars

(* ------------------------------ navigation ----------------------------- *)
(* The cursor may step past the last index. *)
nextStepCursorPastEnd(cur, log) == IF cur < Len(log) THEN cur + 1 ELSE cur

(* The call reports a move at the last index too. *)
nextStepResultPastEnd(cur, log) == cur < Len(log)

(* nextStep(): the cursor after the call and the value returned.           *)
nextStepResult(cur, log) == cur < Len(log) - 1
nextStepCursor(cur, log) == IF cur < Len(log) - 1 THEN cur + 1 ELSE cur

(* The cursor is decremented unguarded. *)
prevStepCursorNoGuard(cur) == cur - 1

(* prevStep(): the cursor after the call and the value returned.           *)
prevStepResult(cur) == cur > 0
prevStepCursor(cur) == IF cur > 0 THEN cur - 1 ELSE cur

NextStepCall ==
    /\ pc = "idle"
    /\ currentStep' = nextStepCursor(currentStep, steps)
    /\ ret' = [op |-> "nextStep", val |-> nextStepResult(currentStep, steps)]
    /\ UNCHANGED <<heap, nextId, nodes, root, freqMap, pc, steps, codes,
                   isPlaying, animationTimeout, playTimer, timers>>
    /\ UNCHANGED visVars

NextStep == NextStepCall /\ UNCHANGED nextCalls

PrevStep ==
    /\ pc = "idle"
    /\ currentStep' = prevStepCursor(currentStep)
    /\ ret' = [op |-> "prevStep", val |-> prevStepResult(currentStep)]
    /\ UNCHANGED <<heap, nextId, nodes, root, freqMap, pc, steps, codes,
                   isPlaying, animationTimeout, playTimer, timers, nextCalls>>
    /\ UNCHANGED visVars

(* clearTimeout(handle) *)
clearTimeout(pending, handle) == {t \in pending : t.h # handle}

(* Nothing is cleared. *)
clearNone(pending, handle) == pending

(* if (handle) clearTimeout(handle) *)
clearIfSet(pending, handle) == IF handle # NULL THEN clearTimeout(pending, handle) ELSE pending

(* reset() *)
Reset ==
    /\ pc = "idle"
    /\ currentStep' = 0
    /\ codes' = EmptyCodes
    /\ timers' = clearIfSet(timers, animationTimeout)
    /\ animationTimeout' = NULL
    /\ isPlaying' = FALSE
    /\ UNCHANGED <<heap, nextId, nodes, root, freqMap, pc, steps, playTimer, ret, nextCalls>>
    /\ UNCHANGED visVars

(* ------------------------------- playback ------------------------------ *)
(* setTimeout returns a handle that nothing holds or waits for.            *)
HandlesInUse(pending) == {t.h : t \in pending} \cup {animationTimeout, playTimer}

FreshHandle(used) ==
    CHOOSE h \in 1..(Cardinality(used) + 1) :
        h \notin used /\ \A g \in 1..(h - 1) : g \in used

Timer(h, kind) == [h |-> h, kind |-> kind]

(* playStep schedules itself again whatever nextStep returned. *)
playStepAlways(playing, left) ==
    /\ currentStep' = nextStepCursor(currentStep, steps)
    /\ ret' = [op |-> "nextStep", val |-> nextStepResult(currentStep, steps)]
    /\ LET h == FreshHandle(HandlesInUse(left))
       IN  /\ isPlaying' = playing
           /\ animationTimeout' = h
           /\ timers' = left \cup {Timer(h, "playStep")}

(* playStep of play(): lines 144-156, entered with isPlaying = playing and *)
(* the timers in left pending.                                             *)
playStep(playing, left) ==
    /\ currentStep' = nextStepCursor(currentStep, steps)
    /\ ret' = [op |-> "nextStep", val |-> nextStepResult(currentStep, steps)]
    /\ IF ~nextStepResult(currentStep, steps) \/ ~playing
       THEN /\ isPlaying' = FALSE
            /\ timers' = left
            /\ UNCHANGED animationTimeout
       ELSE LET h == FreshHandle(HandlesInUse(left))
            IN  /\ isPlaying' = playing
                /\ animationTimeout' = h
                /\ timers' = left \cup {Timer(h, "playStep")}

(* play(callback) *)
Play ==
    /\ pc = "idle"
    /\ IF isPlaying
       THEN UNCHANGED <<currentStep, isPlaying, animationTimeout, timers, ret>>
       ELSE playStep(TRUE, timers)
    /\ UNCHANGED <<heap, nextId, nodes, root, freqMap, pc, steps, codes, playTimer, nextCalls>>
    /\ UNCHANGED visVars

(* A timer set by playStep expires: playStep runs again.                   *)
TimerFire ==
    /\ pc = "idle"
    /\ \E t \in timers : t.kind = "playStep" /\ playStep(isPlaying, timers \ {t})
    /\ UNCHANGED <<heap, nextId, nodes, root, freqMap, pc, steps, codes, playTimer, nextCalls>>
    /\ UNCHANGED visVars

(* pause() *)
Pause ==
    /\ pc = "idle"
    /\ isPlaying' = FALSE
    /\ timers' = clearIfSet(timers, animationTimeout)
    /\ animationTimeout' = NULL
    /\ UNCHANGED <<heap, nextId, nodes, root, freqMap, pc, steps, currentStep, codes,
                   playTimer, ret, nextCalls>>
    /\ UNCHANGED visVars

(* ---------------- HuffmanVisualizer: direct cursor writes -------------- *)
(* The two handlers of the visualizer (src/README.md) that assign the      *)
(* engine's cursor themselves; rendering is left out.                      *)

(* stepBack() *)
stepBack ==
    /\ pc = "idle"
    /\ visPc = "idle"
    /\ currentStep' = IF currentStep > 0 THEN currentStep - 1 ELSE currentStep
    /\ UNCHANGED <<heap, nextId, nodes, root, freqMap, pc, steps, codes, isPlaying,
                   animationTimeout, playTimer, timers, ret, nextCalls>>

VisStepBack == stepBack /\ UNCHANGED visVars

(* reset() of the visualizer: stops its timer, pauses and resets the       *)
(* engine, then writes the cursor and isPlaying itself.                    *)
visReset ==
    /\ pc = "idle"
    /\ visPc = "idle"
    /\ timers' = clearIfSet(clearIfSet(timers, playTimer), animationTimeout)
    /\ playTimer' = NULL
    /\ animationTimeout' = NULL
    /\ codes' = EmptyCodes
    /\ currentStep' = 0
    /\ isPlaying' = FALSE
    /\ UNCHANGED <<heap, nextId, nodes, root, freqMap, pc, steps, ret, nextCalls>>

VisReset == visReset /\ UNCHANGED visVars

(* ------------------ HuffmanVisualizer: build requests ------------------ *)
(* A string read from an input field is the sequence of its characters.    *)
(* The character field of a row has maxlength 1.                           *)
CharInputs == {<<>>, <<"A">>, <<"B">>}
FreqInputs == {<<>>, <<"0">>, <<"1">>}
TextChars == {" ", "A"}

Row(char, freq) == [char |-> char, freq |-> freq]

(* The rows the sample selector fills in for samples.sample3:              *)
(* addInputRow(item.char, item.freq)                                       *)
SampleRows3 ==
    <<Row(<<"0">>, <<"1">>), Row(<<"1">>, <<"3">>), Row(<<"2">>, <<"4">>), Row(<<"3">>, <<"2">>)>>

ManualRequest(rows) == [tab |-> "manual", rows |-> rows, text |-> <<>>]
TextRequest(text) == [tab |-> "text", rows |-> <<>>, text |-> text]

ManualRequests ==
    {ManualRequest(rows) :
        rows \in UNION {[1..n -> {Row(c, f) : c \in CharInputs, f \in FreqInputs}] : n \in 0..MaxRows}}

SampleRequests == {ManualRequest(SampleRows3)}

TextRequests == {TextRequest(text) : text \in UNION {[1..n -> TextChars] : n \in 0..MaxText}}

Requests == ManualRequests \cup SampleRequests \cup TextRequests

(* String.prototype.trim *)
RECURSIVE TrimStart(_)
TrimStart(str) == IF str # <<>> /\ str[1] = " " THEN TrimStart(Tail(str)) ELSE str

RECURSIVE TrimEnd(_)
TrimEnd(str) ==
    IF str # <<>> /\ str[Len(str)] = " " THEN TrimEnd(SubSeq(str, 1, Len(str) - 1)) ELSE str

Trim(str) == TrimEnd(TrimStart(str))

(* The symbol a trimmed character field names: "" or its one character.    *)
Symbol(str) == IF str = <<>> THEN "" ELSE str[1]

(* parseInt(string): NaN, or the integer of the leading sign and digits.   *)
DigitChars == <<"0", "1", "2", "3", "4", "5", "6", "7", "8", "9">>
IsDigit(c) == \E d \in 1..Len(DigitChars) : DigitChars[d] = c
DigitValue(c) == (CHOOSE d \in 1..Len(DigitChars) : DigitChars[d] = c) - 1

RECURSIVE ReadDigits(_, _)
ReadDigits(str, acc) ==
    IF str = <<>> \/ ~IsDigit(str[1]) THEN acc
    ELSE ReadDigits(Tail(str), 10 * acc + DigitValue(str[1]))

NaN == [nan |-> TRUE, val |-> 0]
Number(v) == [nan |-> FALSE, val |-> v]

parseInt(str) ==
    LET t      == TrimStart(str)
        signed == t # <<>> /\ t[1] \in {"-", "+"}
        body   == IF signed THEN Tail(t) ELSE t
    IN  IF body = <<>> \/ ~IsDigit(body[1]) THEN NaN
        ELSE IF signed /\ t[1] = "-" THEN Number(0 - ReadDigits(body, 0))
        ELSE Number(ReadDigits(body, 0))

(* buildFrequencyMap(text) of the engine: one entry per character, in the  *)
(* order of first occurrence.                                              *)
RECURSIVE buildFrequencyMap(_, _)
buildFrequencyMap(text, fm) ==
    IF text = <<>> THEN fm
    ELSE LET c == text[1]
             at == {i \in 1..Len(fm) : fm[i][1] = c}
         IN  buildFrequencyMap(Tail(text),
                 IF at = {} THEN Append(fm, <<c, 1>>)
                 ELSE [i \in 1..Len(fm) |-> IF i \in at THEN <<c, fm[i][2] + 1>> ELSE fm[i]])

DuplicateError == "Duplicate character"
InvalidEntryError == "Please enter valid character and frequency"
TooFewError == "Please enter at least 2 valid characters with frequencies"
EmptyTextError == "Please enter some text to analyze"
TooFewTextError == "Text must contain at least 2 different characters"

Thrown(error) == [error |-> error, map |-> <<>>]
Accepted(fm) == [error |-> NoAlert, map |-> fm]

(* The duplicate test comes after the row has been stored. *)
readRowLate(fm, char, freq) ==
    IF char # "" /\ ~freq.nan /\ freq.val > 0
    THEN Accepted(Append(fm, <<char, freq.val>>))
    ELSE IF char # "" \/ (~freq.nan /\ freq.val # 0) THEN Thrown(InvalidEntryError)
    ELSE Accepted(fm)

(* One row of rows.forEach: the row is stored, skipped or an error thrown. *)
readRow(fm, char, freq) ==
    IF char # "" /\ ~freq.nan /\ freq.val > 0
    THEN IF \E i \in 1..Len(fm) : fm[i][1] = char THEN Thrown(DuplicateError)
         ELSE Accepted(Append(fm, <<char, freq.val>>))
    ELSE IF char # "" \/ (~freq.nan /\ freq.val # 0) THEN Thrown(InvalidEntryError)
    ELSE Accepted(fm)

RECURSIVE readRows(_, _)
readRows(rows, fm) ==
    IF rows = <<>> THEN Accepted(fm)
    ELSE LET r == readRow(fm, Symbol(Trim(rows[1].char)), parseInt(rows[1].freq))
         IN  IF r.error # NoAlert THEN r ELSE readRows(Tail(rows), r.map)

(* The frequency map is not tested for its size. *)
readRequestAnySize(req) ==
    IF req.tab = "manual"
    THEN readRows(req.rows, <<>>)
    ELSE LET text == Trim(req.text)
         IN  IF text = <<>> THEN Thrown(EmptyTextError)
             ELSE Accepted(buildFrequencyMap(text, <<>>))

(* The try block of buildTree() up to the frequency map: the map the       *)
(* engine is called with, or the error thrown before that.                 *)
readRequest(req) ==
    IF req.tab = "manual"
    THEN LET r == readRows(req.rows, <<>>)
         IN  IF r.error # NoAlert THEN r
             ELSE IF Len(r.map) < 2 THEN Thrown(TooFewError)
             ELSE r
    ELSE LET text == Trim(req.text)
         IN  IF text = <<>> THEN Thrown(EmptyTextError)
             ELSE LET fm == buildFrequencyMap(text, <<>>)
                  IN  IF Len(fm) < 2 THEN Thrown(TooFewTextError) ELSE Accepted(fm)

(* String(a.ch || '').localeCompare(String(b.ch || '')) on the characters  *)
(* in use: the empty string, then the space, the digits, the letters.      *)
CharOrder == <<"", " ", "0", "1", "2", "3", "A", "B", "C", "D", "E", "F">>
CharRank(c) == CHOOSE i \in 1..Len(CharOrder) : CharOrder[i] = (IF c = NoChar THEN "" ELSE c)

(* buildCodesFromFreqLocal(pairs): a local node is <<ch, freq>> (a leaf)   *)
(* or <<null, freq, left, right>>.                                         *)
LocalBefore(a, b) ==
    a[2] < b[2] \/ (a[2] = b[2] /\ CharRank(a[1]) <= CharRank(b[1]))

RECURSIVE LocalSort(_)
LocalSort(ns) ==
    IF ns = <<>> THEN <<>>
    ELSE LET p == LocalSort(SubSeq(ns, 1, Len(ns) - 1))
             x == ns[Len(ns)]
             k == Cardinality({i \in 1..Len(p) : LocalBefore(p[i], x)})
         IN  SubSeq(p, 1, k) \o <<x>> \o SubSeq(p, k + 1, Len(p))

RECURSIVE LocalMerge(_)
LocalMerge(ns) ==
    IF Len(ns) > 1
    THEN LET sorted == LocalSort(ns)
             a == sorted[1]
             b == sorted[2]
         IN  LocalMerge(SubSeq(sorted, 3, Len(sorted)) \o <<(<<NoChar, a[2] + b[2], a, b>>)>>)
    ELSE ns[1]

RECURSIVE LocalDfs(_, _, _)
LocalDfs(tbl, n, pref) ==
    IF Len(n) = 2
    THEN [c \in DOMAIN tbl \cup {n[1]} |->
             IF c = n[1] THEN (IF pref = <<>> THEN <<"0">> ELSE pref) ELSE tbl[c]]
    ELSE LocalDfs(LocalDfs(tbl, n[3], pref \o <<"0">>), n[4], pref \o <<"1">>)

buildCodesFromFreqLocal(pairs) ==
    IF pairs = <<>> THEN EmptyCodes
    ELSE IF Len(pairs) = 1 THEN [c \in {pairs[1][1]} |-> <<"0">>]
    ELSE LocalDfs(EmptyCodes, LocalMerge(pairs), <<>>)

(* ------------------- HuffmanVisualizer: codes table -------------------- *)
(* Math.ceil(Math.log2(n)) for n >= 1 *)
RECURSIVE CeilLog2(_)
CeilLog2(n) == IF n <= 1 THEN 0 ELSE 1 + CeilLog2((n + 1) \div 2)

(* Number.prototype.toString(2) of an index >= 0 *)
RECURSIVE ToBinary(_)
ToBinary(i) ==
    IF i < 2 THEN <<(IF i = 0 THEN "0" ELSE "1")>>
    ELSE ToBinary(i \div 2) \o <<(IF i % 2 = 0 THEN "0" ELSE "1")>>

(* The binary index without padding. *)
NoPadStart(str, width) == str

(* padStart(width, '0') *)
RECURSIVE padStart(_, _)
padStart(str, width) == IF Len(str) >= width THEN str ELSE padStart(<<"0">> \o str, width)

(* entries sorted by a[0].localeCompare(b[0]); the keys are distinct.      *)
RECURSIVE SortEntries(_)
SortEntries(fm) ==
    IF fm = <<>> THEN <<>>
    ELSE LET p == SortEntries(SubSeq(fm, 1, Len(fm) - 1))
             x == fm[Len(fm)]
             k == Cardinality({i \in 1..Len(p) : CharRank(p[i][1]) <= CharRank(x[1])})
         IN  SubSeq(p, 1, k) \o <<x>> \o SubSeq(p, k + 1, Len(p))

(* updateCodesTable(): the rows of the table and the two bit counts shown  *)
(* above it (estimated bits, original bits).                               *)
updateCodesTable(cfm, tbl, fixed) ==
    LET entries == SortEntries(cfm)
        uniqueChars == Len(entries)
        fixedCodeLength == IF uniqueChars > 1 THEN CeilLog2(uniqueChars) ELSE 1
        code(i) == IF fixed THEN padStart(ToBinary(i - 1), fixedCodeLength)
                   ELSE IF entries[i][1] \in DOMAIN tbl THEN tbl[entries[i][1]] ELSE <<>>
        bits(i) == IF fixed THEN fixedCodeLength * entries[i][2]
                   ELSE Len(code(i)) * entries[i][2]
        rows == [i \in 1..uniqueChars |->
                    [char |-> entries[i][1], freq |-> entries[i][2],
                     code |-> code(i), bits |-> bits(i)]]
        totalCount == SeqSum([i \in 1..uniqueChars |-> entries[i][2]])
    IN  [rows |-> rows,
         totalBits |-> SeqSum([i \in 1..uniqueChars |-> bits(i)]),
         originalBits |-> totalCount * 8,
         fixed |-> fixed]

(* --------------------- HuffmanVisualizer: handlers --------------------- *)
(* buildTree() of the visualizer, from the click to the call of the        *)
(* engine: a request that throws is answered by alert(error.message),      *)
(* which blocks the page until it is dismissed.                            *)
VisBuildTree(req) ==
    /\ pc = "idle"
    /\ visPc = "idle"
    /\ request' = req
    /\ LET r == readRequest(req)
       IN  IF r.error # NoAlert
           THEN /\ alert' = r.error
                /\ visPc' = "alert"
                /\ UNCHANGED <<engineVars, playTimer, currentFreqMap, currentTree,
                               showFixedLength, table, lastCall>>
           ELSE /\ currentFreqMap' = r.map
                /\ BuildTree(r.map)
                /\ visPc' = "build"
                /\ UNCHANGED <<currentTree, showFixedLength, table, alert, lastCall>>

VisAlertDismiss ==
    /\ visPc = "alert"
    /\ visPc' = "idle"
    /\ alert' = NoAlert
    /\ request' = NoRequest
    /\ UNCHANGED <<engineVars, playTimer, currentFreqMap, currentTree, showFixedLength, table,
                   lastCall>>

(* buildTree() of the visualizer after the engine has returned: the final  *)
(* root is read from the last step, the codes are derived from it or, if   *)
(* the code table is still empty, from the frequency map; the table is     *)
(* rendered.                                                               *)
VisBuildFinish ==
    /\ visPc = "build"
    /\ pc = "idle"
    /\ LET lastStep  == steps[Len(steps)]
           finalRoot == IF lastStep.nodes # NoNodes /\ lastStep.nodes[1] # <<>>
                        THEN lastStep.nodes[1][1] ELSE NULL
           derived   == IF finalRoot # NULL THEN generateCodes(heap, codes, finalRoot, <<>>)
                        ELSE codes
           fallback  == buildCodesFromFreqLocal(currentFreqMap)
       IN  /\ currentTree' = finalRoot
           /\ codes' = IF derived = EmptyCodes /\ fallback # EmptyCodes THEN fallback ELSE derived
           /\ table' = updateCodesTable(currentFreqMap, codes', showFixedLength)
    /\ visPc' = "idle"
    /\ request' = NoRequest
    /\ UNCHANGED <<heap, nextId, nodes, root, freqMap, pc, steps, currentStep, isPlaying,
                   animationTimeout, playTimer, timers, ret, nextCalls,
                   currentFreqMap, showFixedLength, alert, lastCall>>

(* coreAdvanceStep(): nextStep of the engine; the codes table was rendered *)
(* by the build and is not rendered again.                                 *)
VisCoreAdvanceStep == visPc = "idle" /\ NextStep

(* toggleEncoding() *)
VisToggleEncoding ==
    /\ pc = "idle"
    /\ visPc = "idle"
    /\ showFixedLength' = ~showFixedLength
    /\ table' = updateCodesTable(currentFreqMap, codes, showFixedLength')
    /\ UNCHANGED <<engineVars, playTimer, visPc, request, currentFreqMap, currentTree, alert,
                   lastCall>>

(* -------------- HuffmanVisualizer: step, playback and timers ----------- *)
(* The control handlers as the user invokes them, and the expiries of the  *)
(* timers they set.  A timer set by step() has kind "advance" and its      *)
(* handle is stored nowhere; the timer set by tick has kind "tick" and its *)
(* handle is stored in playTimer.  Delays are left out: pending timers may *)
(* expire in any order.                                                    *)

(* hasPair of step() and of getChoreoDelay(): the current step highlights  *)
(* two nodes; getCurrentStep() is undefined outside the log.               *)
hasPair(log, cur) ==
    /\ cur + 1 \in 1..Len(log)
    /\ Len(log[cur + 1].highlightNodes) >= 2

(* The value step() returns. *)
stepMoved(log, cur) == hasPair(log, cur) \/ nextStepResult(cur, log)

(* The timers pending after step() entered with the timers in left. *)
stepTimers(log, cur, left) ==
    IF hasPair(log, cur)
    THEN left \cup {Timer(FreshHandle(HandlesInUse(left)), "advance")}
    ELSE left

(* step() entered with the timers in left pending: on a merge step the     *)
(* advance is delayed by a timer, otherwise coreAdvanceStep() runs now.    *)
stepFrom(left) ==
    /\ timers' = stepTimers(steps, currentStep, left)
    /\ IF hasPair(steps, currentStep)
       THEN UNCHANGED <<currentStep, ret>>
       ELSE /\ currentStep' = nextStepCursor(currentStep, steps)
            /\ ret' = [op |-> "nextStep", val |-> nextStepResult(currentStep, steps)]

(* Room for the timers a call may set. *)
Room(left, n) == Cardinality(left) + n <= MaxPending

(* The step button. *)
VisStep ==
    /\ pc = "idle"
    /\ visPc = "idle"
    /\ Room(timers, 1)
    /\ stepFrom(timers)
    /\ lastCall' = "step"
    /\ UNCHANGED <<heap, nextId, nodes, root, freqMap, pc, steps, codes, isPlaying,
                   animationTimeout, playTimer, nextCalls>>
    /\ UNCHANGED visShown

(* The timer of step() expires: coreAdvanceStep().                         *)
VisAdvance ==
    /\ pc = "idle"
    /\ visPc = "idle"
    /\ \E t \in timers : t.kind = "advance" /\ timers' = timers \ {t}
    /\ currentStep' = nextStepCursor(currentStep, steps)
    /\ ret' = [op |-> "nextStep", val |-> nextStepResult(currentStep, steps)]
    /\ UNCHANGED <<heap, nextId, nodes, root, freqMap, pc, steps, codes, isPlaying,
                   animationTimeout, playTimer, nextCalls>>
    /\ UNCHANGED visVars

(* tick of togglePlay(), entered with isPlaying = playing and the timers   *)
(* in left pending.                                                        *)
tick(playing, left) ==
    IF ~playing
    THEN /\ timers' = left
         /\ UNCHANGED <<currentStep, ret, isPlaying, playTimer>>
    ELSE IF ~stepMoved(steps, currentStep)
    THEN /\ stepFrom(left)
         /\ isPlaying' = FALSE
         /\ playTimer' = NULL
    ELSE LET h == FreshHandle(HandlesInUse(stepTimers(steps, currentStep, left)))
         IN  /\ timers' = stepTimers(steps, currentStep, left) \cup {Timer(h, "tick")}
             /\ IF hasPair(steps, currentStep)
                THEN UNCHANGED <<currentStep, ret>>
                ELSE /\ currentStep' = nextStepCursor(currentStep, steps)
                     /\ ret' = [op |-> "nextStep", val |-> nextStepResult(currentStep, steps)]
             /\ isPlaying' = playing
             /\ playTimer' = h

(* The play button: togglePlay().                                          *)
VisTogglePlay ==
    /\ pc = "idle"
    /\ visPc = "idle"
    /\ IF isPlaying
       THEN /\ timers' = clearIfSet(clearIfSet(timers, playTimer), animationTimeout)
            /\ playTimer' = NULL
            /\ animationTimeout' = NULL
            /\ isPlaying' = FALSE
            /\ lastCall' = "pause"
            /\ UNCHANGED <<currentStep, ret>>
       ELSE /\ Room(timers, 2)
            /\ tick(TRUE, timers)
            /\ lastCall' = "play"
            /\ UNCHANGED animationTimeout
    /\ UNCHANGED <<heap, nextId, nodes, root, freqMap, pc, steps, codes, nextCalls>>
    /\ UNCHANGED visShown

(* The timer of tick expires: tick runs again.                             *)
VisTick ==
    /\ pc = "idle"
    /\ visPc = "idle"
    /\ \E t \in timers : /\ t.kind = "tick"
                         /\ Room(timers \ {t}, 2)
                         /\ tick(isPlaying, timers \ {t})
    /\ UNCHANGED <<heap, nextId, nodes, root, freqMap, pc, steps, codes,
                   animationTimeout, nextCalls>>
    /\ UNCHANGED visVars

(* The back button and the reset button. *)
VisStepBackCall == stepBack /\ lastCall' = "stepBack" /\ UNCHANGED visShown

VisResetCall == visReset /\ lastCall' = "reset" /\ UNCHANGED visShown

(* --------------------------- specifications ---------------------------- *)
(* The engine under any sequence of calls of its methods, expiries of its  *)
(* timer, and the two visualizer handlers that write its cursor directly.  *)
Build == \E fm \in FreqTables : BuildTree(fm) /\ UNCHANGED visVars

Next ==
    \/ Build
    \/ BuildTreeMerge
    \/ BuildTreeEnd
    \/ GenerateCodes
    \/ NextStep
    \/ PrevStep
    \/ Reset
    \/ Play
    \/ TimerFire
    \/ Pause
    \/ VisStepBack
    \/ VisReset

Spec == Init /\ [][Next]_vars


(* One session on a fresh engine, over larger tables and the first sample  *)
(* table: one buildTree call, then one generateCodes call on its root and  *)
(* a counted run of nextStep calls from cursor 0.                          *)
BuildOnce ==
    /\ steps = <<>>
    /\ \E fm \in BuildTables \cup {SampleTable} : BuildTree(fm)
    /\ UNCHANGED visVars

GenerateOnce == codes = EmptyCodes /\ GenerateCodes

NextStepCounted ==
    /\ steps # <<>>
    /\ nextCalls < Len(steps) - 1 + MaxExtra
    /\ NextStepCall
    /\ nextCalls' = nextCalls + 1

NextBuild ==
    \/ BuildOnce
    \/ BuildTreeMerge
    \/ BuildTreeEnd
    \/ GenerateOnce
    \/ NextStepCounted

SpecBuild == Init /\ [][NextBuild]_vars

(* Engine playback left alone: one buildTree call, nextStep and prevStep   *)
(* calls to place the cursor, then play(); while the engine is playing the *)
(* only steps are the expiries of its timer, and a pending timer expires   *)
(* eventually.                                                             *)
PlayBuild ==
    /\ steps = <<>>
    /\ \E fm \in FreqTables \cup {SampleTable} : BuildTree(fm)
    /\ UNCHANGED visVars

PlayNextStep == ~isPlaying /\ NextStep
PlayPrevStep == ~isPlaying /\ PrevStep

NextPlay ==
    \/ PlayBuild
    \/ BuildTreeMerge
    \/ BuildTreeEnd
    \/ PlayNextStep
    \/ PlayPrevStep
    \/ Play
    \/ TimerFire

SpecPlay == Init /\ [][NextPlay]_vars /\ WF_vars(TimerFire)

(* The visualizer: build requests from the manual, sample and text tabs,   *)
(* stepping, reset and the encoding toggle.                                *)
VisBuild == \E req \in Requests : VisBuildTree(req)

NextVis ==
    \/ VisBuild
    \/ BuildTreeMerge
    \/ BuildTreeEnd
    \/ VisBuildFinish
    \/ VisAlertDismiss
    \/ VisCoreAdvanceStep
    \/ VisStepBack
    \/ VisReset
    \/ VisToggleEncoding

SpecVis == Init /\ [][NextVis]_vars

(* The controls of the visualizer on one built log: the buttons step,     *)
(* back, play/pause and reset, and the expiries of the timers of step()    *)
(* and of tick.                                                            *)
NextTimers ==
    \/ PlayBuild
    \/ BuildTreeMerge
    \/ BuildTreeEnd
    \/ VisStep
    \/ VisAdvance
    \/ VisTogglePlay
    \/ VisTick
    \/ VisStepBackCall
    \/ VisResetCall

SpecTimers == Init /\ [][NextTimers]_vars

(* ------------------------- observing the state ------------------------- *)
(* The objects reachable from a reference.                                 *)
RECURSIVE Reach(_, _)
Reach(h, n) ==
    IF n = NULL THEN {} ELSE {n} \cup Reach(h, h[n].left) \cup Reach(h, h[n].right)

ReachAll(h, refs) == UNION {Reach(h, refs[i]) : i \in 1..Len(refs)}

(* A tree as a value: <<char, freq, id, left, right>>, <<>> for null.      *)
RECURSIVE TreeOf(_, _)
TreeOf(h, n) ==
    IF n = NULL THEN <<>>
    ELSE <<h[n].char, h[n].freq, h[n].id, TreeOf(h, h[n].left), TreeOf(h, h[n].right)>>

HasForest(step) == step.nodes # NoNodes
Forest(step) == IF HasForest(step) THEN step.nodes[1] ELSE <<>>
Snapshot(h, step) == [i \in 1..Len(Forest(step)) |-> TreeOf(h, Forest(step)[i])]

IsInitialStep(step) == step.description[1] = "Starting with the following nodes:"
IsMergeStep(step) == step.description[1] = "Combining nodes"
IsFinalStep(step) == step.description[1] = "Huffman tree construction complete!"

MergeSteps == {k \in 1..Len(steps) : IsMergeStep(steps[k])}

TotalFreq(fm) == SeqSum([i \in 1..Len(fm) |-> fm[i][2]])

(* buildTree has returned for the table freqMap.                           *)
Built == pc = "idle" /\ steps # <<>>

(* generateCodes has run on the root of the table freqMap (SpecBuild).     *)
Derived == Built /\ codes # EmptyCodes

IsPrefix(a, b) == Len(a) <= Len(b) /\ SubSeq(b, 1, Len(a)) = a

(* ------------------------------- claims -------------------------------- *)
(* C1: for a valid table of n >= 2 symbols buildTree records exactly n + 1 *)
(* steps: the initial step, then n - 1 merge steps, then the final step.   *)
C1_StepCount ==
    (Built /\ IsValid(freqMap) /\ Len(freqMap) >= 2) =>
        LET n == Len(freqMap)
        IN  /\ Len(steps) = n + 1
            /\ IsInitialStep(steps[1])
            /\ \A k \in 2..n : IsMergeStep(steps[k])
            /\ IsFinalStep(steps[n + 1])
            /\ Cardinality(MergeSteps) = n - 1

C1_Witness ==
    Built /\ IsValid(freqMap) /\ Len(freqMap) = 4 /\ Cardinality(MergeSteps) = 3

(* C2: after buildTree on a valid table the last recorded step's forest    *)
(* holds exactly one root, whose frequency is the sum of the input         *)
(* frequencies.                                                            *)
C2_FinalForest ==
    (Built /\ IsValid(freqMap)) =>
        LET last == steps[Len(steps)]
        IN  /\ HasForest(last)
            /\ Len(Forest(last)) = 1
            /\ heap[Forest(last)[1]].freq = TotalFreq(freqMap)

(* C3: for a valid table of n >= 2 symbols the codes generateCodes derives *)
(* from the returned root are prefix-free: no symbol's code is a prefix of *)
(* another symbol's code.                                                  *)
C3_PrefixFree ==
    (Derived /\ IsValid(freqMap) /\ Len(freqMap) >= 2) =>
        /\ \A i \in 1..Len(freqMap) : freqMap[i][1] \in DOMAIN codes
        /\ \A i, j \in 1..Len(freqMap) :
               i # j => ~IsPrefix(codes[freqMap[i][1]], codes[freqMap[j][1]])

C3_Witness ==
    /\ Derived /\ IsValid(freqMap) /\ Len(freqMap) = 3
    /\ \E c, d \in DOMAIN codes :
           c # d /\ Len(codes[c]) = 2 /\ Len(codes[d]) = 2 /\ codes[c][1] = codes[d][1]

(* C4: for a valid table of n >= 2 symbols the encoded size                *)
(* sum(len(code(s)) * freq(s)) is minimal among the prefix-free binary     *)
(* codes.  By Kraft-McMillan, code lengths l_1..l_n belong to a            *)
(* prefix-free binary code iff sum 2^(-l_i) <= 1; lengths up to n are      *)
(* compared.                                                               *)
RECURSIVE Pow2(_)
Pow2(k) == IF k = 0 THEN 1 ELSE 2 * Pow2(k - 1)

Kraft(lens) ==
    LET n == Len(lens)
    IN  SeqSum([i \in 1..n |-> Pow2(n - lens[i])]) <= Pow2(n)

EncodedSize(fm, lens) == SeqSum([i \in 1..Len(fm) |-> lens[i] * fm[i][2]])

CodeLengths(fm, tbl) == [i \in 1..Len(fm) |-> Len(tbl[fm[i][1]])]

C4_Optimal ==
    (Derived /\ IsValid(freqMap) /\ Len(freqMap) >= 2) =>
        LET n == Len(freqMap)
        IN  \A lens \in [1..n -> 1..n] :
                Kraft(lens) =>
                    EncodedSize(freqMap, CodeLengths(freqMap, codes)) <= EncodedSize(freqMap, lens)

C4_Witness ==
    /\ Derived /\ IsValid(freqMap) /\ Len(freqMap) = 4
    /\ \E i, j \in 1..4 :
           /\ Len(codes[freqMap[i][1]]) = 1
           /\ Len(codes[freqMap[j][1]]) = 3
           /\ freqMap[i][2] > freqMap[j][2]
    /\ \E lens \in [1..4 -> 1..4] :
           Kraft(lens) /\ EncodedSize(freqMap, CodeLengths(freqMap, codes)) < EncodedSize(freqMap, lens)

(* C5: snapshot independence.  While the log grows, no step already        *)
(* recorded changes: the frequency, symbol, id and children of every node  *)
(* of its forest stay what they were; and no object of a recorded forest   *)
(* is shared with the working forest, the returned tree or another step.   *)
NoSharing ==
    /\ \A k \in 1..Len(steps) :
           ReachAll(heap, Forest(steps[k])) \cap (ReachAll(heap, nodes) \cup Reach(heap, root)) = {}
    /\ \A j, k \in 1..Len(steps) :
           j # k => ReachAll(heap, Forest(steps[j])) \cap ReachAll(heap, Forest(steps[k])) = {}

LogGrows ==
    /\ Len(steps') >= Len(steps)
    /\ \A k \in 1..Len(steps) : steps'[k].description = steps[k].description

C5_SnapshotIndependence ==
    [][/\ LogGrows =>
            \A k \in 1..Len(steps) : Snapshot(heap', steps'[k]) = Snapshot(heap, steps[k])
       /\ NoSharing']_vars

C5_Witness ==
    /\ pc = "loop" /\ Len(steps) = 3 /\ Len(nodes) = 2
    /\ Cardinality(ReachAll(heap, Forest(steps[3]))) = 6

(* C6: in every reachable state the cursor satisfies                       *)
(* 0 <= currentStep < steps.length.                                        *)
C6_CursorInRange == 0 <= currentStep /\ currentStep < Len(steps)

(* C6, amended: 0 <= currentStep in every reachable state, and             *)
(* currentStep < steps.length whenever the log is not empty; while the log *)
(* is empty (before the first buildTree) the cursor is 0.                  *)
C6_CursorInRangeOfLog ==
    /\ 0 <= currentStep
    /\ steps # <<>> => currentStep < Len(steps)
    /\ steps = <<>> => currentStep = 0

C6_Witness ==
    /\ Built /\ Len(steps) = 3 /\ currentStep = 2
    /\ ret = [op |-> "nextStep", val |-> FALSE]
    /\ timers = {} /\ animationTimeout # NULL /\ playTimer = NULL

(* C7: from cursor 0 on a built log, the first steps.length - 1 nextStep   *)
(* calls return true and advance the cursor by one each, ending on the     *)
(* last step; every further call returns false and leaves the cursor on    *)
(* the last step.                                                          *)
C7_NextStepRun ==
    Built =>
        /\ nextCalls <= Len(steps) - 1 => currentStep = nextCalls
        /\ nextCalls >= Len(steps) - 1 => currentStep = Len(steps) - 1
        /\ nextCalls >= 1 => ret = [op |-> "nextStep", val |-> nextCalls <= Len(steps) - 1]

C7_Witness ==
    Built /\ Len(steps) = 5 /\ nextCalls = Len(steps) + 1 /\ currentStep = 4

(* C8: prevStep at cursor 0 returns false and leaves the cursor at 0 and   *)
(* the log unchanged; at a cursor > 0 it decrements the cursor by exactly  *)
(* one and returns true.                                                   *)
C8_PrevStep ==
    [][PrevStep =>
          /\ steps' = steps
          /\ IF currentStep = 0
             THEN currentStep' = 0 /\ ret'.val = FALSE
             ELSE currentStep' = currentStep - 1 /\ ret'.val = TRUE]_vars

C8_Witness ==
    /\ Built /\ Len(steps) = 3 /\ currentStep = 0
    /\ ret = [op |-> "prevStep", val |-> FALSE]

(* C9: the internal node a merge creates carries one id: the id of         *)
(* forest[0] in the merge's step is the id of that merged subtree in every *)
(* later recorded forest and in the returned tree, and there is exactly    *)
(* one internal node id per merge.                                         *)
IsInternal(h, n) == ~isLeaf(h, n)

SameMerge(h, x, m) ==
    /\ IsInternal(h, x)
    /\ h[h[x].left].id = h[h[m].left].id
    /\ h[h[x].right].id = h[h[m].right].id

InternalIds ==
    {heap[x].id : x \in {y \in UNION {ReachAll(heap, Forest(steps[k])) : k \in 1..Len(steps)}
                                \cup Reach(heap, root) : IsInternal(heap, y)}}

C9_IdPreserved ==
    (Built /\ IsValid(freqMap)) =>
        /\ \A k \in MergeSteps :
               LET m == Forest(steps[k])[1]
               IN  /\ \A j \in (k + 1)..Len(steps) :
                          \A x \in ReachAll(heap, Forest(steps[j])) :
                              SameMerge(heap, x, m) => heap[x].id = heap[m].id
                   /\ \A x \in Reach(heap, root) :
                          SameMerge(heap, x, m) => heap[x].id = heap[m].id
        /\ Cardinality(InternalIds) = Cardinality(MergeSteps)

(* C10: for a single-symbol table buildTree records no merge step and the  *)
(* codes derived from the returned root bind the symbol to "0".            *)
C10_SingleSymbol ==
    (Derived /\ IsValid(freqMap) /\ Len(freqMap) = 1) =>
        /\ MergeSteps = {}
        /\ codes[freqMap[1][1]] = <<"0">>

(* C11: after generateCodes(root), whatever builds or generateCodes calls  *)
(* came before, the code table has exactly one entry per leaf of root and  *)
(* no other entry, each mapping the leaf's symbol to its root-to-leaf path *)
(* (left edge "0", right edge "1").                                        *)
RECURSIVE LeafPaths(_, _, _)
LeafPaths(h, n, path) ==
    IF n = NULL THEN {}
    ELSE IF isLeaf(h, n) THEN {<<h[n].char, path>>}
    ELSE LeafPaths(h, h[n].left, path \o <<"0">>) \cup LeafPaths(h, h[n].right, path \o <<"1">>)

Entries(tbl) == {<<c, tbl[c]>> : c \in DOMAIN tbl}

C11_PureDerivation ==
    [][GenerateCodes => Entries(codes') = LeafPaths(heap, root, <<>>)]_vars

(* C12: buildTree given a table that contains a frequency below 1 fails:   *)
(* no node is created for it and no step is recorded.                      *)
HasInvalidFrequency(fm) == \E i \in 1..Len(fm) : fm[i][2] < 1

C12_InvalidFrequencyRejected ==
    HasInvalidFrequency(freqMap) => (steps = <<>> /\ heap = <<>>)

(* C15: the cursor is changed only by navigation operations and never by   *)
(* construction: buildTree leaves the cursor value it found.               *)
BuildEntry == pc = "idle" /\ pc' = "loop"
InBuild == BuildEntry \/ pc = "loop"

Navigation ==
    NextStep \/ PrevStep \/ Reset \/ Play \/ TimerFire \/ VisStepBack \/ VisReset

C15_CursorOnlyNavigation ==
    [][/\ currentStep' # currentStep => Navigation
       /\ InBuild => currentStep' = currentStep]_vars

(* C15, amended: the cursor is changed only by navigation operations and   *)
(* by the entry of buildTree, which sets it to 0 whatever value it found;  *)
(* the rest of the construction leaves it alone.                           *)
C15_CursorNavigationOrBuild ==
    [][/\ currentStep' # currentStep => (Navigation \/ BuildEntry)
       /\ BuildEntry => currentStep' = 0
       /\ pc = "loop" => currentStep' = currentStep]_vars

C15_Witness ==
    /\ pc = "loop" /\ currentStep = 0
    /\ ret = [op |-> "nextStep", val |-> TRUE]

(* C16: a fresh buildTree resets the log entirely: after any sequence of   *)
(* earlier builds and navigation, when buildTree(T) returns the log holds  *)
(* exactly the steps of the run on T (the initial step over T's symbols,   *)
(* one merge step per merge, the final step) and no step of an earlier     *)
(* build.                                                                  *)
LeafEntries(h, refs) ==
    {<<h[x].char, h[x].freq>> : x \in {y \in ReachAll(h, refs) : isLeaf(h, y)}}

C16_LogReset ==
    Built =>
        LET n == Len(freqMap)
            last == IF n = 0 THEN 2 ELSE n + 1
        IN  /\ Len(steps) = last
            /\ IsInitialStep(steps[1])
            /\ Len(Forest(steps[1])) = n
            /\ \A k \in 2..(last - 1) : IsMergeStep(steps[k])
            /\ IsFinalStep(steps[last])
            /\ \A k \in 1..(last - 1) : LeafEntries(heap, Forest(steps[k])) = Range(freqMap)

C16_Witness ==
    /\ Built /\ Len(freqMap) = 1 /\ Len(steps) = 2
    /\ Cardinality(DOMAIN codes) = 2
    /\ ret = [op |-> "nextStep", val |-> TRUE]

(* C17: for every valid table and any two symbols x, y with                *)
(* freq(x) > freq(y), len(code(x)) <= len(code(y)) in the codes derived    *)
(* from buildTree's root; for the sample table {A:5, B:9, C:12, D:13,      *)
(* E:16, F:45}, F has a shortest code, A a longest one and the encoded     *)
(* size is at most 800 bits.                                               *)
C17_FrequentNotLonger ==
    (Derived /\ IsValid(freqMap)) =>
        /\ \A i, j \in 1..Len(freqMap) :
               freqMap[i][2] > freqMap[j][2] =>
                   Len(codes[freqMap[i][1]]) <= Len(codes[freqMap[j][1]])
        /\ freqMap = SampleTable =>
               /\ \A c \in DOMAIN codes : Len(codes["F"]) <= Len(codes[c])
               /\ \A c \in DOMAIN codes : Len(codes[c]) <= Len(codes["A"])
               /\ EncodedSize(freqMap, CodeLengths(freqMap, codes)) <= 800

C17_Witness ==
    /\ Derived /\ freqMap = SampleTable
    /\ Len(codes["F"]) = 1 /\ Len(codes["A"]) = 4
    /\ EncodedSize(freqMap, CodeLengths(freqMap, codes)) = 224

(* C19: at every merge the two nodes removed, a then b, are the two        *)
(* lowest-frequency roots of the working forest at that moment:            *)
(* a.freq <= b.freq and b.freq <= r.freq for every root r that remains.    *)
C19_TwoLowest ==
    [][BuildTreeMerge =>
          LET a == heap'[nodes'[1]].left
              b == heap'[nodes'[1]].right
              remaining == Range(nodes) \ {a, b}
          IN  /\ a \in Range(nodes) /\ b \in Range(nodes) /\ a # b
              /\ remaining = Range(Tail(nodes'))
              /\ heap[a].freq <= heap[b].freq
              /\ \A r \in remaining : heap[b].freq <= heap[r].freq]_vars

C19_Witness ==
    /\ pc = "loop" /\ Len(steps) = 4 /\ Len(nodes) = 3
    /\ heap[heap[nodes[1]].left].freq < heap[heap[nodes[1]].right].freq
    /\ heap[heap[nodes[1]].right].freq < heap[nodes[2]].freq
    /\ ~isLeaf(heap, heap[nodes[1]].left)

(* C20: every node of every recorded forest and of the returned tree is    *)
(* either a leaf (both children absent, carrying a symbol) or an internal  *)
(* node (both children present, carrying no symbol) whose frequency is the *)
(* sum of its two children's frequencies; no node has exactly one child.   *)
WellShaped(h, x) ==
    \/ h[x].left = NULL /\ h[x].right = NULL /\ h[x].char # NoChar
    \/ /\ h[x].left # NULL /\ h[x].right # NULL /\ h[x].char = NoChar
       /\ h[x].freq = h[h[x].left].freq + h[h[x].right].freq

RecordedNodes == UNION {ReachAll(heap, Forest(steps[k])) : k \in 1..Len(steps)}

C20_NodeShape ==
    \A x \in RecordedNodes \cup ReachAll(heap, nodes) \cup Reach(heap, root) : WellShaped(heap, x)

C20_Witness ==
    /\ Built /\ Len(freqMap) = 4 /\ root # NULL
    /\ ~isLeaf(heap, heap[root].left) /\ ~isLeaf(heap, heap[root].right)
    /\ Cardinality(RecordedNodes) = 22

(* C13: a build request whose input contains the same symbol twice is      *)
(* rejected with a duplicate-symbol error before any node is created: the  *)
(* engine's buildTree is never entered and no step is recorded for it.     *)
RowSymbol(row) == Symbol(Trim(row.char))

IsValidRow(row) ==
    RowSymbol(row) # "" /\ ~parseInt(row.freq).nan /\ parseInt(row.freq).val >= 1

IsBlankRow(row) ==
    RowSymbol(row) = "" /\ (parseInt(row.freq).nan \/ parseInt(row.freq).val = 0)

IsInvalidRow(row) == ~IsValidRow(row) /\ ~IsBlankRow(row)

HasDuplicateSymbol(req) ==
    /\ req.tab = "manual"
    /\ \E i, j \in 1..Len(req.rows) :
           i < j /\ RowSymbol(req.rows[i]) # "" /\ RowSymbol(req.rows[i]) = RowSymbol(req.rows[j])

(* A step that handles a build request, up to the call of the engine.      *)
BuildRequest == visPc = "idle" /\ visPc' # "idle"

EngineUntouched ==
    /\ pc' = "idle"
    /\ UNCHANGED <<heap, nextId, nodes, root, freqMap, steps, currentStep, codes>>

C13_DuplicateRejected ==
    [][(BuildRequest /\ HasDuplicateSymbol(request')) =>
          (visPc' = "alert" /\ alert' = DuplicateError /\ EngineUntouched)]_vars

(* C13, amended: a build request whose input contains the same symbol      *)
(* twice is rejected before any node is created (buildTree is never        *)
(* entered, no step is recorded) with the error of its first offending     *)
(* row: the duplicate-symbol error when a valid row repeats the symbol of  *)
(* an earlier valid row and no invalid row comes before it, the            *)
(* invalid-entry error otherwise.                                          *)
RepeatsEarlier(rows, j) ==
    IsValidRow(rows[j]) /\ \E i \in 1..(j - 1) :
        IsValidRow(rows[i]) /\ RowSymbol(rows[i]) = RowSymbol(rows[j])

DuplicateComesFirst(rows) ==
    \E j \in 1..Len(rows) :
        RepeatsEarlier(rows, j) /\ \A k \in 1..(j - 1) : ~IsInvalidRow(rows[k])

C13_DuplicateRejectedFirstError ==
    [][(BuildRequest /\ HasDuplicateSymbol(request')) =>
          /\ visPc' = "alert"
          /\ EngineUntouched
          /\ alert' = IF DuplicateComesFirst(request'.rows) THEN DuplicateError
                      ELSE InvalidEntryError]_vars

C13_Witness ==
    /\ visPc = "alert" /\ alert = DuplicateError /\ HasDuplicateSymbol(request)
    /\ Built /\ currentStep = 1

(* C14: a build request is all-or-nothing: if it fails (duplicate symbol,  *)
(* invalid frequency, fewer than 2 valid symbols, empty text) the engine's *)
(* step log, cursor and code table are exactly what they were before the   *)
(* request; the log is replaced only by a build that completes.            *)
ValidSymbols(rows) == {RowSymbol(rows[i]) : i \in {k \in 1..Len(rows) : IsValidRow(rows[k])}}

Fails(req) ==
    IF req.tab = "manual"
    THEN \/ HasDuplicateSymbol(req)
         \/ \E i \in 1..Len(req.rows) : IsInvalidRow(req.rows[i])
         \/ Cardinality(ValidSymbols(req.rows)) < 2
    ELSE \/ Trim(req.text) = <<>>
         \/ Cardinality(Range(Trim(req.text))) < 2

C14_AllOrNothing ==
    [][/\ BuildRequest =>
            IF Fails(request')
            THEN visPc' = "alert" /\ steps' = steps /\ currentStep' = currentStep
                 /\ codes' = codes /\ EngineUntouched
            ELSE visPc' = "build" /\ pc' = "loop"
       /\ steps' # steps => (pc' = "loop" \/ pc = "loop")
       /\ pc = "loop" => (pc' = "loop" \/ (pc' = "idle" /\ IsFinalStep(steps'[Len(steps')])))]_vars

C14_Witness ==
    /\ visPc = "alert" /\ alert = TooFewError /\ Fails(request)
    /\ Built /\ Len(steps) = 5 /\ currentStep = 2 /\ Cardinality(DOMAIN codes) = 4

(* C18: fixed-length total bits equal ceil(log2(n)) * totalOccurrences for *)
(* n distinct symbols, with 1 bit per symbol when n = 1, and the baseline  *)
(* equals 8 * totalOccurrences; in fixed-length mode every symbol's row    *)
(* uses exactly ceil(log2(n)) bits per occurrence.  Checked on every table *)
(* the visualizer has rendered and, before the first rendering, on         *)
(* updateCodesTable itself for the valid tables of the engine              *)
(* specification and the first sample table.                               *)
FixedBitsPerSymbol(n) ==
    IF n > 1 THEN CHOOSE k \in 1..n : Pow2(k) >= n /\ Pow2(k - 1) < n ELSE 1

FixedLengthTable(fm, t) ==
    LET n == Len(fm)
        bitsPer == FixedBitsPerSymbol(n)
    IN  /\ t.originalBits = 8 * TotalFreq(fm)
        /\ t.totalBits = bitsPer * TotalFreq(fm)
        /\ Len(t.rows) = n
        /\ {<<t.rows[i].char, t.rows[i].freq>> : i \in 1..n} = Range(fm)
        /\ \A i \in 1..n :
               /\ Len(t.rows[i].code) = bitsPer
               /\ t.rows[i].bits = bitsPer * t.rows[i].freq
        /\ \A i, j \in 1..n : i # j => t.rows[i].code # t.rows[j].code

FixedLengthOnTables ==
    \A fm \in {t \in FreqTables : IsValid(t)} \cup {SampleTable} :
        FixedLengthTable(fm, updateCodesTable(fm, EmptyCodes, TRUE))

C18_FixedLength ==
    /\ table = NoTable => FixedLengthOnTables
    /\ (visPc = "idle" /\ table # NoTable) =>
           /\ table.fixed = showFixedLength
           /\ table.originalBits = 8 * TotalFreq(currentFreqMap)
           /\ table.fixed => FixedLengthTable(currentFreqMap, table)

C18_Witness ==
    /\ visPc = "idle" /\ table # NoTable /\ table.fixed
    /\ Len(currentFreqMap) = 4 /\ TotalFreq(currentFreqMap) = 10
    /\ table.totalBits = 20 /\ table.originalBits = 80
    /\ table.rows[1].code = <<"0", "0">> /\ table.rows[4].code = <<"1", "1">>

(* C21: each merge step's forest is [internal, ...remaining roots] and its *)
(* highlighted ids are exactly two, [a.id, b.id], equal in order to the    *)
(* ids of the left and right children of that step's forest[0]; the        *)
(* initial step and the final step highlight no ids.                       *)
MergeStepShape(h, step) ==
    LET f == Forest(step)
    IN  /\ f # <<>>
        /\ IsInternal(h, f[1])
        /\ step.highlightNodes = <<h[h[f[1]].left].id, h[h[f[1]].right].id>>

HighlightsByKind ==
    \A k \in 1..Len(steps) :
        /\ IsMergeStep(steps[k]) => MergeStepShape(heap, steps[k])
        /\ (IsInitialStep(steps[k]) \/ IsFinalStep(steps[k])) => steps[k].highlightNodes = <<>>

C21_MergeStep ==
    [][/\ HighlightsByKind'
       /\ BuildTreeMerge =>
              LET step == steps'[Len(steps')]
                  f    == Forest(step)
                  a    == heap'[nodes'[1]].left
                  b    == heap'[nodes'[1]].right
              IN  /\ IsMergeStep(step)
                  /\ step.highlightNodes = <<heap[a].id, heap[b].id>>
                  /\ Len(f) = Len(nodes')
                  /\ TreeOf(heap', heap'[f[1]].left) = TreeOf(heap, a)
                  /\ TreeOf(heap', heap'[f[1]].right) = TreeOf(heap, b)
                  /\ \A i \in 2..Len(f) : TreeOf(heap', f[i]) = TreeOf(heap', nodes'[i])]_vars

C21_Witness ==
    /\ Built /\ Len(freqMap) = 4 /\ Len(steps) = 5
    /\ Len(Forest(steps[2])) = 3 /\ Len(Forest(steps[4])) = 1
    /\ steps[4].highlightNodes # steps[2].highlightNodes
    /\ steps[5].highlightNodes = <<>>

(* C22: the initial step's forest lists all leaves sorted ascending by     *)
(* frequency, and leaves of equal frequency appear in symbol order,        *)
(* whatever the iteration order of the input table.                        *)
C22_InitialOrder ==
    (steps # <<>> /\ IsValid(freqMap)) =>
        LET f == Forest(steps[1])
        IN  /\ Len(f) = Len(freqMap)
            /\ \A i, j \in 1..Len(f) :
                   i < j => \/ heap[f[i]].freq < heap[f[j]].freq
                            \/ /\ heap[f[i]].freq = heap[f[j]].freq
                               /\ CharRank(heap[f[i]].char) < CharRank(heap[f[j]].char)

(* C23: node ids are unique: within any single recorded forest, and within *)
(* the tree returned by buildTree, no two distinct nodes carry the same    *)
(* id.                                                                     *)
UniqueIds(h, objs) == \A x, y \in objs : x # y => h[x].id # h[y].id

Leaves(h, objs) == {x \in objs : isLeaf(h, x)}

Conserved(h, objs, fm) ==
    /\ Cardinality(Leaves(h, objs)) = Len(fm)
    /\ \A i \in 1..Len(fm) :
           Cardinality({x \in Leaves(h, objs) : h[x].char = fm[i][1] /\ h[x].freq = fm[i][2]}) = 1

C30_SymbolsConserved ==
    /\ \A k \in 1..Len(steps) :
           (IsInitialStep(steps[k]) \/ IsMergeStep(steps[k])) =>
               Conserved(heap, ReachAll(heap, Forest(steps[k])), freqMap)
    /\ Built => Conserved(heap, Reach(heap, root), freqMap)

C30_Witness ==
    /\ Built /\ freqMap = SampleTable /\ Len(steps) = 7
    /\ Cardinality(Leaves(heap, Reach(heap, root))) = 6
    /\ Cardinality(Leaves(heap, ReachAll(heap, Forest(steps[6])))) = 6

(* C28: engine playback terminates: after play() is called on a built log  *)
(* with the cursor at any index and no pause or reset follows, timer       *)
(* firings eventually leave the cursor on the last step with isPlaying =   *)
(* false and no further timer scheduled; the cursor only moves forward, by *)
(* one step per firing.                                                    *)
PlaybackOver == ~isPlaying /\ timers = {} /\ currentStep = Len(steps) - 1

C28_PlaybackTerminates ==
    /\ (isPlaying /\ Built) ~> PlaybackOver
    /\ [][TimerFire =>
             currentStep' = IF currentStep < Len(steps) - 1 THEN currentStep + 1
                            ELSE currentStep]_vars

C28_Witness ==
    /\ PlaybackOver /\ Len(steps) = 7 /\ animationTimeout # NULL
    /\ ret = [op |-> "nextStep", val |-> FALSE]

(* C29: engine playback runs as a single timer chain: play() called while  *)
(* isPlaying is true changes nothing, under any interleaving of play,      *)
(* pause, reset and timer firings at most one animation timer is pending   *)
(* at a time, and after pause() or reset() no timer is pending and         *)
(* isPlaying is false.                                                     *)
C29_SingleChain ==
    [][/\ (Play /\ isPlaying) => UNCHANGED vars
       /\ Cardinality(timers') <= 1
       /\ (isPlaying' /\ pc' = "idle") => timers' # {}
       /\ (Pause \/ Reset) => (timers' = {} /\ ~isPlaying')]_vars

C29_Witness ==
    /\ isPlaying /\ Cardinality(timers) = 1 /\ animationTimeout = 2
    /\ \A t \in timers : t.h = animationTimeout
    /\ Built /\ currentStep = 1

(* C24: after a successful build in the visualizer, the code held for each *)
(* symbol in the engine's code table equals that symbol's root-to-leaf     *)
(* path (left "0", right "1") in the tree the engine's buildTree built for *)
(* the same frequency map, including when frequencies tie.                 *)
C24_CodesAgreeWithTree ==
    [][VisBuildFinish =>
          \A lp \in LeafPaths(heap', root', <<>>) :
              lp[1] \in DOMAIN codes' /\ codes'[lp[1]] = lp[2]]_vars

(* C25: in every state reachable after a first successful visualizer       *)
(* build, under any sequence of reset, navigation, encoding toggle and     *)
(* rebuild with a different table, the key set of the engine's code table  *)
(* equals the symbol set of the current frequency map.                     *)
SymbolsOf(fm) == {fm[i][1] : i \in 1..Len(fm)}

C25_CodeKeysCurrent ==
    (visPc = "idle" /\ currentFreqMap # <<>>) => DOMAIN codes = SymbolsOf(currentFreqMap)

(* C26: after the visualizer's reset the cursor is 0 and stays 0 until the *)
(* user next invokes step, play or build: as long as reset is the handler  *)
(* invoked last, no timer set before it moves the cursor.                  *)
C26_ResetHoldsCursor == (Built /\ lastCall = "reset") => currentStep = 0

(* C27: after playback is paused through togglePlay the cursor does not    *)
(* change until the user invokes step, stepBack, play or reset: no step    *)
(* taken while pause is the handler invoked last changes the cursor.       *)
C27_PauseHoldsCursor ==
    [][(lastCall = "pause" /\ lastCall' = "pause") => currentStep' = currentStep]_vars

====
